---- MODULE Spec2Model ----
(***************************************************************************)
(* A model of msh/conditioners/base.py: the condition fuser                *)
(* (ConditionFuser), the two dropout policies (AttributeDropout,           *)
(* ClassifierFreeGuidanceDropout), the condition provider                  *)
(* (ConditionProvider) and the conditioners' common forward                *)
(* (BaseConditioner).                                                      *)
(*                                                                         *)
(* A tensor [B, T, D] is modelled by its shape and by its content along    *)
(* the time axis: a sequence of T cells, a cell being the sequence of the  *)
(* tags of what was put there (its origin first, then every condition      *)
(* summed onto it).                                                        *)
(***************************************************************************)
EXTENDS Integers, Sequences, FiniteSets, TLC

\* ------------------------------------------------------------- bounds
MaxT == 5          \* longest backbone input (time steps) of one fuse call
MaxCondLen == 3    \* longest condition (time steps)
MaxConds == 2      \* most conditions supplied to one fuse call
MaxCalls == 2      \* most successful fuse calls followed in one streaming session, or in a row
                   \* outside of one
BatchSize == 2     \* B of the fuser's input
Dim == 8           \* D of the fuser's input
MaxExamples == 2   \* most examples in one batch given to a dropout policy
RngMod == 8        \* number of values a uniform draw of the generator can take
MaxDropoutCalls == 2 \* most calls of one ClassifierFreeGuidanceDropout module counted
MaxRawLen == 2     \* longest raw condition (time steps) a conditioner embeds

VARIABLES
    \* ---- ConditionFuser
    fuse2cond,        \* the configuration given to __init__: <<method, <<names>>>> pairs, in dict order
    cond2fuse,        \* self.cond2fuse: attribute name -> fusion method
    pos_emb,          \* self.cross_attention_pos_emb
    is_streaming,     \* self._is_streaming
    streaming_state,  \* self._streaming_state: whether "offsets" is a key, and its value
    call,             \* the last fuse call: its arguments and what it returned
    session,          \* history of the streaming sessions and of the single-shot calls
                      \* since the last of them (for the statements only)
    \* ---- DropoutModule (AttributeDropout, ClassifierFreeGuidanceDropout), on two workers
    policy,           \* the dropout module constructed: its kind and arguments
    training,         \* self.training
    rng,              \* self.rng of each worker: the generator's state
    order,            \* each worker's iteration order of ConditionAttributes.condition_types()
    dcall,            \* the last dropout call: the batch given and, per worker, what happened
    history,          \* the module's seed and, of a ClassifierFreeGuidanceDropout, the calls
                      \* made and the values drawn since construction (for the statements only)
    \* ---- ConditionProvider
    conditioners,     \* self.conditioners: name -> conditioner (its family), in dict order
    pcall,            \* the last prepare / forward round: arguments, results, error raised
    invoked,          \* per conditioner, how often the round called its prepare and its forward
    \* ---- BaseConditioner
    conditioner,      \* the conditioner constructed: its arguments
    ccall             \* the last forward call: what _get_condition gave and what was returned

fuserVars == <<fuse2cond, cond2fuse, pos_emb, is_streaming, streaming_state, call, session>>

dropoutVars == <<policy, training, rng, order, dcall, history>>

providerVars == <<conditioners, pcall, invoked>>

conditionerVars == <<conditioner, ccall>>

vars == <<fuserVars, dropoutVars, providerVars, conditionerVars>>

\* ------------------------------------------------------------ helpers
\* All sequences of at most n distinct elements of S.
RECURSIVE DistinctSeqs(_, _)
DistinctSeqs(S, n) ==
    IF n = 0 THEN {<<>>}
    ELSE LET shorter == DistinctSeqs(S, n - 1)
         IN  shorter \cup UNION {{Append(s, x) : x \in S \ {s[i] : i \in DOMAIN s}} :
                                      s \in shorter}

\* ------------------------------------------------------ ConditionFuser
FUSING_METHODS == {"sum", "prepend", "cross"}

\* The configurations a fuser is constructed with.
SpecConfig ==
    << <<"sum", <<"genre">>>>, <<"cross", <<"description">>>>, <<"prepend", <<"lyrics">>>> >>

DocConfig ==
    << <<"prepend", <<"description">>>>, <<"sum", <<"genre", "bpm">>>>,
       <<"cross", <<"description">>>> >>

\* Two attributes fused by cross.
TwoCrossConfig ==
    << <<"cross", <<"description", "lyrics">>>>, <<"sum", <<"genre">>>> >>

\* Two attributes fused by prepend.
TwoPrependConfig == << <<"prepend", <<"description", "lyrics">>>> >>

Configs == {SpecConfig, DocConfig, TwoCrossConfig, TwoPrependConfig}

\* An attribute name no configuration knows.
UnknownAttr == "artist"

\* __init__: for fuse_method, conditions in fuse2cond.items():
\*               for condition in conditions: cond2fuse[condition] = fuse_method
\* A later entry overwrites an earlier one.
RECURSIVE AssignAll(_, _, _)
AssignAll(c2f, conditions, method) ==
    IF conditions = <<>> THEN c2f
    ELSE AssignAll([a \in DOMAIN c2f \cup {Head(conditions)} |->
                        IF a = Head(conditions) THEN method ELSE c2f[a]],
                   Tail(conditions), method)

RECURSIVE BuildCond2Fuse(_, _)
BuildCond2Fuse(c2f, f2c) ==
    IF f2c = <<>> THEN c2f
    ELSE BuildCond2Fuse(AssignAll(c2f, Head(f2c)[2], Head(f2c)[1]), Tail(f2c))

EmptyMap == [a \in {} |-> "sum"]

\* A tensor's content along time.
InputCells(T) == [i \in 1..T |-> <<"input">>]
CondCells(name, len) == [i \in 1..len |-> <<name>>]

\* input += cond: in-place addition, cond broadcast along time when its length is 1.
\* It raises when cond cannot be broadcast to input's shape.
SumFits(cells, len) == len = Len(cells) \/ len = 1
AddCond(cells, name) == [i \in DOMAIN cells |-> Append(cells[i], name)]

NoCross == [isNone |-> TRUE, cells |-> <<>>]

\* op = self.cond2fuse[cond_type]: the method of a configured attribute; the lookup
\* of any other name raises KeyError.
Method(name) == IF name \in DOMAIN cond2fuse THEN cond2fuse[name] ELSE "KeyError"

KnownCondsMutant(conds) == TRUE
\* assert set(conditions.keys()).issubset(set(self.cond2fuse.keys()))
KnownConds(conds) == {conds[i].name : i \in DOMAIN conds} \subseteq DOMAIN cond2fuse

FirstStepMutant == TRUE
\* if "offsets" in self._streaming_state: first_step = False else: first_step = True
FirstStep == ~streaming_state.present

ZeroOffsetsMutant == [i \in 1..BatchSize |-> 1]
\* offsets = torch.zeros(input.shape[0], dtype=torch.long)
ZeroOffsets == [i \in 1..BatchSize |-> 0]

\* offsets = self._streaming_state["offsets"] if present, else zeros
Offsets == IF FirstStep THEN ZeroOffsets ELSE streaming_state.offsets

StoresOffsetsMutant == TRUE
\* if self._is_streaming: self._streaming_state["offsets"] = offsets + T
StoresOffsets == is_streaming

AdvanceMutant(offsets, T, fusedLen) == [i \in DOMAIN offsets |-> offsets[i] + fusedLen]
\* offsets + T
Advance(offsets, T, fusedLen) == [i \in DOMAIN offsets |-> offsets[i] + T]

\* The condition concatenated after the input.
CatMutant(cond, input) == input \o cond
\* torch.cat([cond, input], dim=1)
Cat(cond, input) == cond \o input

\* A sum out of place (input = input + cond): the caller's tensor is not written.
CallerAfterSumMutant(acc, name) == acc.caller
\* input += cond writes the tensor the local variable input refers to: the caller's
\* tensor, as long as no torch.cat has rebound input to a new tensor.
CallerAfterSum(acc, name) ==
    IF acc.aliased THEN AddCond(acc.caller, name) ELSE acc.caller

\* FuseOne with a cross condition also concatenated before the input.
FuseOneMutant(acc, c, first_step) ==
    LET op == Method(c.name) IN
    IF acc.err THEN acc
    ELSE IF op = "sum" THEN
        IF SumFits(acc.input, c.len)
        THEN [acc EXCEPT !.input = AddCond(acc.input, c.name),
                         !.caller = CallerAfterSum(acc, c.name)]
        ELSE [acc EXCEPT !.err = TRUE]
    ELSE IF op = "prepend" THEN
        IF first_step
        THEN [acc EXCEPT !.input = Cat(CondCells(c.name, c.len), acc.input),
                         !.aliased = FALSE]
        ELSE acc
    ELSE IF op = "cross" THEN
        IF ~acc.cross.isNone
        THEN [acc EXCEPT !.cross.cells = acc.cross.cells \o CondCells(c.name, c.len),
                         !.input = IF first_step THEN CondCells(c.name, c.len) \o acc.input
                                   ELSE acc.input]
        ELSE [acc EXCEPT !.cross = [isNone |-> FALSE, cells |-> CondCells(c.name, c.len)],
                         !.input = IF first_step THEN CondCells(c.name, c.len) \o acc.input
                                   ELSE acc.input]
    ELSE [acc EXCEPT !.err = TRUE]

\* One iteration of `for cond_type, (cond, cond_mask) in conditions.items()`.
\* acc: input (the local variable), aliased (input is still the caller's tensor),
\* caller (the caller's tensor), cross (cross_attention_output), err (an exception
\* was raised).
FuseOne(acc, c, first_step) ==
    LET op == Method(c.name) IN
    IF acc.err THEN acc
    ELSE IF op = "sum" THEN
        IF SumFits(acc.input, c.len)
        THEN [acc EXCEPT !.input = AddCond(acc.input, c.name),
                         !.caller = CallerAfterSum(acc, c.name)]
        ELSE [acc EXCEPT !.err = TRUE]
    ELSE IF op = "prepend" THEN
        IF first_step
        THEN [acc EXCEPT !.input = Cat(CondCells(c.name, c.len), acc.input),
                         !.aliased = FALSE]
        ELSE acc
    ELSE IF op = "cross" THEN
        IF ~acc.cross.isNone
        THEN [acc EXCEPT !.cross.cells = acc.cross.cells \o CondCells(c.name, c.len)]
        ELSE [acc EXCEPT !.cross = [isNone |-> FALSE, cells |-> CondCells(c.name, c.len)]]
    ELSE [acc EXCEPT !.err = TRUE]

RECURSIVE FuseLoop(_, _, _)
FuseLoop(acc, conds, first_step) ==
    IF conds = <<>> THEN acc
    ELSE FuseLoop(FuseOne(acc, Head(conds), first_step), Tail(conds), first_step)

AddPosEmbMutant(cross) == cross
\* cross_attention_output + scale * pos_emb: same shape, every position changed.
AddPosEmb(cross) ==
    IF pos_emb /\ ~cross.isNone
    THEN [cross EXCEPT !.cells = [i \in DOMAIN cross.cells |-> Append(cross.cells[i], "pos_emb")]]
    ELSE cross

\* The conditions mappings a call is given: at most MaxConds entries with distinct
\* keys, in insertion order, each a condition of some time length.
CondLens == {1, MaxCondLen}
\* The time lengths T of the inputs: one step, the length of the longest condition,
\* and the longest input.
InputLens == {1, MaxCondLen, MaxT}

\* The attribute names a call may use: the configured ones and an unknown one.
CondNames(f2c) == DOMAIN BuildCond2Fuse(EmptyMap, f2c) \cup {UnknownAttr}

RECURSIVE WithLens(_)
WithLens(names) ==
    IF names = <<>> THEN {<<>>}
    ELSE {<<[name |-> Head(names), len |-> l]>> \o rest :
              l \in CondLens, rest \in WithLens(Tail(names))}

CondMapsOf ==
    [f2c \in Configs |->
        UNION {WithLens(names) : names \in DistinctSeqs(CondNames(f2c), MaxConds)}]

CondMaps == CondMapsOf[fuse2cond]

\* The conditions of a mapping that the configuration fuses by prepending.
PrependConds(conds) ==
    {conds[i] : i \in {j \in DOMAIN conds : cond2fuse[conds[j].name] = "prepend"}}

RECURSIVE PrependLen(_)
PrependLen(conds) ==
    IF conds = <<>> THEN 0
    ELSE (IF cond2fuse[Head(conds).name] = "prepend" THEN Head(conds).len ELSE 0)
         + PrependLen(Tail(conds))

\* The shape of a tensor with these cells along time.
Shape(cells) == <<BatchSize, Len(cells), Dim>>

NoCall ==
    [status |-> "none", T |-> 0, conds |-> <<>>, first_step |-> FALSE,
     streaming |-> FALSE, fused |-> <<>>, cross |-> NoCross, caller |-> <<>>,
     before |-> [present |-> FALSE, offsets |-> <<>>]]

NoSession == [calls |-> 0, sumT |-> 0, prepended |-> {}, earlier |-> -1, single |-> 0]

FuserInit ==
    /\ fuse2cond \in Configs
    /\ cond2fuse = BuildCond2Fuse(EmptyMap, fuse2cond)
    /\ pos_emb \in BOOLEAN
    /\ is_streaming = FALSE
    /\ streaming_state = [present |-> FALSE, offsets |-> <<>>]
    /\ call = NoCall
    /\ session = NoSession

\* StreamingModule.streaming(), entering: streaming mode on, state cleared.
BeginStreaming ==
    /\ ~is_streaming
    /\ is_streaming' = TRUE
    /\ streaming_state' = [present |-> FALSE, offsets |-> <<>>]
    /\ call' = NoCall
    /\ session' = [session EXCEPT !.calls = 0, !.sumT = 0, !.prepended = {}, !.single = 0]
    /\ UNCHANGED <<fuse2cond, cond2fuse, pos_emb>>

\* StreamingModule.streaming(), leaving: streaming mode off, state reset.
EndStreaming ==
    /\ is_streaming
    /\ is_streaming' = FALSE
    /\ streaming_state' = [present |-> FALSE, offsets |-> <<>>]
    /\ call' = NoCall
    /\ session' = [calls |-> 0, sumT |-> 0, prepended |-> {}, earlier |-> session.calls,
                    single |-> 0]
    /\ UNCHANGED <<fuse2cond, cond2fuse, pos_emb>>

\* ConditionFuser.forward(input, conditions), input of shape [BatchSize, T, Dim].
Forward(T, conds) ==
    LET first_step == FirstStep
        offsets == Offsets
        start == [input |-> InputCells(T), aliased |-> TRUE, caller |-> InputCells(T),
                  cross |-> NoCross, err |-> FALSE]
        known == KnownConds(conds)
        acc == IF known THEN FuseLoop(start, conds, first_step) ELSE start
        ok == known /\ ~acc.err
        rec == [status |-> IF ok THEN "ok" ELSE IF known THEN "RuntimeError" ELSE "AssertionError",
                T |-> T, conds |-> conds, first_step |-> first_step,
                streaming |-> is_streaming,
                fused |-> IF ok THEN acc.input ELSE <<>>,
                cross |-> IF ok THEN AddPosEmb(acc.cross) ELSE NoCross,
                caller |-> acc.caller,
                before |-> streaming_state]
    IN  /\ call' = rec
        /\ IF ok /\ StoresOffsets
           THEN streaming_state' = [present |-> TRUE,
                                    offsets |-> Advance(offsets, T, Len(acc.input))]
           ELSE UNCHANGED streaming_state
        /\ IF ok /\ is_streaming
           THEN session' = [session EXCEPT !.calls = @ + 1, !.sumT = @ + T,
                                           !.prepended = IF first_step
                                                         THEN PrependConds(conds)
                                                         ELSE @]
           ELSE IF ok
           THEN session' = [session EXCEPT !.single = @ + 1]
           ELSE UNCHANGED session
        /\ UNCHANGED <<fuse2cond, cond2fuse, pos_emb, is_streaming>>

Fuse ==
    /\ call.status = "none"
    /\ is_streaming => session.calls < MaxCalls
    /\ ~is_streaming => session.single < MaxCalls
    /\ \E T \in InputLens, conds \in CondMaps : Forward(T, conds)

\* The caller has taken the result of the last call; the next call can be made.
TakeResult ==
    /\ call.status # "none"
    /\ call' = NoCall
    /\ UNCHANGED <<fuse2cond, cond2fuse, pos_emb, is_streaming, streaming_state, session>>

FuserNext == BeginStreaming \/ EndStreaming \/ Fuse \/ TakeResult

\* ------------------------------------------------------ dropout policies
Workers == {1, 2}

\* A text value: a string or None.
TextNone == [isNone |-> TRUE, s |-> ""]
Text(str) == [isNone |-> FALSE, s |-> str]

\* WavCondition: wav of shape [b, channels, samples], length of shape [b],
\* sample_rate, and one path and one seek_time per example.
Wav(samples, rate) ==
    [b |-> 1, samples |-> samples, length |-> <<samples>>, sample_rate |-> rate,
     path |-> <<"a.wav">>, seek_time |-> <<"0.0">>]

\* WavCondition.is_nullified
IsNullified(wav) == wav.samples = 1

\* A dict: its items in insertion order.
Keys(d) == [i \in DOMAIN d |-> d[i].k]
KeySet(d) == {d[i].k : i \in DOMAIN d}
Get(d, key) == LET i == CHOOSE j \in DOMAIN d : d[j].k = key IN d[i].v
Set(d, key, val) == [i \in DOMAIN d |-> IF d[i].k = key THEN [k |-> key, v |-> val] ELSE d[i]]

\* ConditionAttributes(text, wav)
Attrs(text, wav) == [text |-> text, wav |-> wav]

\* The examples batches are made of.
Examples ==
    { Attrs(<<[k |-> "genre", v |-> Text("rock")]>>, <<>>),
      Attrs(<<[k |-> "genre", v |-> Text("jazz")], [k |-> "description", v |-> TextNone]>>,
            <<[k |-> "self_wav", v |-> Wav(3, 24)]>>),
      Attrs(<<[k |-> "description", v |-> Text("slow")], [k |-> "genre", v |-> Text("pop")]>>,
            <<[k |-> "self_wav", v |-> Wav(0, 24)]>>),
      Attrs(<<>>, <<[k |-> "self_wav", v |-> Wav(1, 16)]>>) }

RECURSIVE SeqsUpTo(_, _)
SeqsUpTo(S, n) ==
    IF n = 0 THEN {<<>>}
    ELSE LET shorter == SeqsUpTo(S, n - 1)
         IN  shorter \cup {Append(b, x) : b \in shorter, x \in S}

Batches == SeqsUpTo(Examples, MaxExamples)

\* The probabilities used, as the number of draw values below them.
Never == 0
Half == RngMod \div 2
Always == RngMod

\* The dropout modules constructed.
AttributePolicy(dropouts, active_on_eval) ==
    [kind |-> "attribute", dropouts |-> dropouts, active_on_eval |-> active_on_eval, p |-> 0]
CFGPolicy(p) ==
    [kind |-> "cfg", dropouts |-> <<>>, active_on_eval |-> FALSE, p |-> p]

DropoutMaps ==
    { <<[k |-> "genre", v |-> Always]>>,
      <<[k |-> "genre", v |-> Half], [k |-> "self_wav", v |-> Half]>>,
      <<[k |-> "description", v |-> Never], [k |-> "self_wav", v |-> Always]>> }

Policies ==
    {AttributePolicy(d, a) : d \in DropoutMaps, a \in BOOLEAN}
        \cup {CFGPolicy(p) : p \in {Never, Half, Always}}

DefaultSeed == 1234
Seeds == {DefaultSeed % RngMod, 0}

\* A generator whose draws are uniform in (0, 1].
NextRngMutant(state) == ((5 * state + 3) % RngMod) + 1
\* torch.rand(1, generator=self.rng): the generator advances, and the value drawn,
\* uniform in [0, 1), is its new state over RngMod.
NextRng(state) == (5 * state + 3) % RngMod

\* ConditionAttributes.condition_types(): a frozenset, whose iteration order is
\* that of the process's string hashes.
ConditionTypes == {"text", "wav"}
TypeOrders == {<<"text", "wav">>, <<"wav", "text">>}

\* nullify_wav(wav)
NullifyWav(wav) ==
    [b |-> wav.b,
     samples |-> IF wav.samples >= 1 THEN 1 ELSE wav.samples,
     length |-> [i \in DOMAIN wav.length |-> 0],
     sample_rate |-> wav.sample_rate,
     path |-> [i \in DOMAIN wav.path |-> "None"],
     seek_time |-> [i \in DOMAIN wav.seek_time |-> "None"]]

\* dropout_condition_: the two checks that raise ValueError.
DropoutArgsOk(sample, condition_type, condition) ==
    /\ condition_type \in ConditionTypes
    /\ condition \in KeySet(sample[condition_type])

\* Dropping an attribute by deleting its key.
DropoutConditionMutant(sample, condition_type, condition) ==
    [sample EXCEPT ![condition_type] = SelectSeq(@, LAMBDA item : item.k # condition)]
\* dropout_condition_(sample, condition_type, condition), in place.
DropoutCondition(sample, condition_type, condition) ==
    IF condition_type = "wav"
    THEN [sample EXCEPT !.wav = Set(@, condition, NullifyWav(Get(@, condition)))]
    ELSE [sample EXCEPT !.text = Set(@, condition, TextNone)]

\* The caller's batch in memory: object i is the i-th ConditionAttributes.
Memory(batch) == [i \in 1..Len(batch) |-> batch[i]]

CopyBatchMutant(mem, ids) == [mem |-> mem, ids |-> ids]
\* [ca.copy() for ca in batch]: a new object for each, holding new dicts of the
\* same items.
CopyBatch(mem, ids) ==
    LET n == Len(mem) IN
    [mem |-> [i \in 1..(n + Len(ids)) |->
                  IF i <= n THEN mem[i]
                  ELSE Attrs(mem[ids[i - n]].text, mem[ids[i - n]].wav)],
     ids |-> [i \in 1..Len(ids) |-> n + i]]

\* for condition in getattr(sample, condition_type): the (object, type, condition)
\* triples visited, in order.
TypeWork(mem, id, condition_type) ==
    LET keys == Keys(mem[id][condition_type])
    IN  [i \in DOMAIN keys |-> [id |-> id, type |-> condition_type, key |-> keys[i]]]

RECURSIVE TypesWork(_, _, _)
TypesWork(mem, id, types) ==
    IF types = <<>> THEN <<>>
    ELSE TypeWork(mem, id, Head(types)) \o TypesWork(mem, id, Tail(types))

\* AttributeDropout.forward: for each example, for each type, for each condition.
RECURSIVE AttributeWork(_, _, _)
AttributeWork(mem, ids, types) ==
    IF ids = <<>> THEN <<>>
    ELSE TypesWork(mem, Head(ids), types) \o AttributeWork(mem, Tail(ids), types)

RECURSIVE SamplesWork(_, _, _)
SamplesWork(mem, ids, condition_type) ==
    IF ids = <<>> THEN <<>>
    ELSE TypeWork(mem, Head(ids), condition_type) \o SamplesWork(mem, Tail(ids), condition_type)

CFGWorkMutant(mem, ids, types) ==
    IF ids = <<>> THEN <<>> ELSE TypesWork(mem, Head(ids), types)
\* ClassifierFreeGuidanceDropout.forward: for each type, for each sample, for each
\* condition.
RECURSIVE CFGWork(_, _, _)
CFGWork(mem, ids, types) ==
    IF types = <<>> THEN <<>>
    ELSE SamplesWork(mem, ids, Head(types)) \o CFGWork(mem, ids, Tail(types))

\* AttributeStep drawing a value for every attribute, configured or not.
AttributeStepMutant(st, item, dropouts) ==
    LET drawn == NextRng(st.rng) IN
    IF item.key \in KeySet(dropouts) /\ drawn < Get(dropouts, item.key)
    THEN [mem |-> [st.mem EXCEPT ![item.id] = DropoutCondition(@, item.type, item.key)],
          rng |-> drawn, draws |-> st.draws + 1,
          dropped |-> st.dropped \cup {item}]
    ELSE [st EXCEPT !.rng = drawn, !.draws = @ + 1]

\* AttributeDropout.forward, the body of the innermost loop.
\* st: mem, rng, draws (the number of values drawn), dropped (the triples nullified).
AttributeStep(st, item, dropouts) ==
    IF item.key \in KeySet(dropouts)
    THEN LET drawn == NextRng(st.rng) IN
         IF drawn < Get(dropouts, item.key)
         THEN [mem |-> [st.mem EXCEPT ![item.id] = DropoutCondition(@, item.type, item.key)],
               rng |-> drawn, draws |-> st.draws + 1,
               dropped |-> st.dropped \cup {item}]
         ELSE [st EXCEPT !.rng = drawn, !.draws = @ + 1]
    ELSE st

RECURSIVE AttributeLoop(_, _, _)
AttributeLoop(st, work, dropouts) ==
    IF work = <<>> THEN st
    ELSE AttributeLoop(AttributeStep(st, Head(work), dropouts), Tail(work), dropouts)

\* CFGStep drawing a value for every attribute it nullifies.
CFGStepMutant(st, item) ==
    [st EXCEPT !.mem[item.id] = DropoutCondition(@, item.type, item.key),
               !.dropped = @ \cup {item},
               !.rng = NextRng(@),
               !.draws = @ + 1]

\* ClassifierFreeGuidanceDropout.forward, the body of the innermost loop.
CFGStep(st, item) ==
    [st EXCEPT !.mem[item.id] = DropoutCondition(@, item.type, item.key),
               !.dropped = @ \cup {item}]

RECURSIVE CFGLoop(_, _)
CFGLoop(st, work) ==
    IF work = <<>> THEN st ELSE CFGLoop(CFGStep(st, Head(work)), Tail(work))

Ids(batch) == [i \in 1..Len(batch) |-> i]

\* What a call leaves: the memory, the list returned (object ids), the generator.
Result(st, ret) ==
    [mem |-> st.mem, ret |-> ret, rng |-> st.rng, draws |-> st.draws, dropped |-> st.dropped]

AttributeActiveMutant(pol, train) == TRUE
\* if not self.training and not self.active_on_eval: return condition_attributes_batch
AttributeActive(pol, train) == train \/ pol.active_on_eval

\* AttributeDropout.forward(condition_attributes_batch)
AttributeForward(pol, train, batch, state, types) ==
    LET st0 == [mem |-> Memory(batch), rng |-> state, draws |-> 0, dropped |-> {}] IN
    IF ~AttributeActive(pol, train)
    THEN Result(st0, Ids(batch))
    ELSE LET copied == CopyBatch(st0.mem, Ids(batch))
             st1 == [st0 EXCEPT !.mem = copied.mem]
         IN  Result(AttributeLoop(st1, AttributeWork(copied.mem, copied.ids, types),
                                  pol.dropouts),
                    copied.ids)

\* ClassifierFreeGuidanceDropout.forward(samples)
CFGForward(pol, train, batch, state, types) ==
    LET st0 == [mem |-> Memory(batch), rng |-> state, draws |-> 0, dropped |-> {}] IN
    IF ~train
    THEN Result(st0, Ids(batch))
    ELSE LET drawn == NextRng(state)
             st1 == [st0 EXCEPT !.rng = drawn, !.draws = 1]
         IN  IF ~(drawn < pol.p)
             THEN Result(st1, Ids(batch))
             ELSE LET copied == CopyBatch(st1.mem, Ids(batch))
                      st2 == [st1 EXCEPT !.mem = copied.mem]
                  IN  Result(CFGLoop(st2, CFGWork(copied.mem, copied.ids, types)),
                             copied.ids)

PolicyForward(pol, train, batch, state, types) ==
    IF pol.kind = "attribute"
    THEN AttributeForward(pol, train, batch, state, types)
    ELSE CFGForward(pol, train, batch, state, types)

NoDropoutCall ==
    [status |-> "none", batch |-> <<>>, training |-> FALSE, before |-> <<>>, res |-> <<>>]

NoHistory(seed) ==
    [seed |-> seed, calls |-> 0, trained |-> 0, values |-> [w \in Workers |-> 0]]

\* DropoutModule.__init__ on both workers, with the same arguments and seed.
DropoutInit ==
    /\ policy \in Policies
    /\ training = TRUE
    /\ \E seed \in Seeds : rng = [w \in Workers |-> seed] /\ history = NoHistory(seed)
    /\ order \in [Workers -> TypeOrders]
    /\ dcall = NoDropoutCall

\* Both workers call the dropout module on the same batch.
DropoutCall ==
    /\ dcall.status = "none"
    /\ policy.kind = "cfg" => history.calls < MaxDropoutCalls
    /\ \E batch \in Batches :
          LET res == [w \in Workers |-> PolicyForward(policy, training, batch, rng[w], order[w])]
          IN  /\ dcall' = [status |-> "ok", batch |-> batch, training |-> training,
                           before |-> rng, res |-> res]
              /\ rng' = [w \in Workers |-> res[w].rng]
              /\ history' = IF policy.kind = "cfg"
                            THEN [history EXCEPT
                                     !.calls = @ + 1,
                                     !.trained = @ + (IF training THEN 1 ELSE 0),
                                     !.values = [w \in Workers |-> @[w] + res[w].draws]]
                            ELSE history
    /\ UNCHANGED <<policy, training, order>>

\* nn.Module.train()
Train ==
    /\ ~training
    /\ training' = TRUE
    /\ UNCHANGED <<policy, rng, order, dcall, history>>

\* nn.Module.eval()
Eval ==
    /\ training
    /\ training' = FALSE
    /\ UNCHANGED <<policy, rng, order, dcall, history>>

\* The callers have taken the result of the last call; the next call can be made.
TakeDropped ==
    /\ dcall.status # "none"
    /\ dcall' = NoDropoutCall
    /\ UNCHANGED <<policy, training, rng, order, history>>

DropoutNext == DropoutCall \/ Train \/ Eval \/ TakeDropped

\* ---------------------------------------------------- ConditionProvider
\* The registries a provider is constructed with. A conditioner is a
\* _BaseTextConditioner ("text"), a _BaseWaveformConditioner ("wav") or another
\* BaseConditioner ("other").
Registries ==
    { <<>>,
      <<[k |-> "genre", v |-> "text"]>>,
      <<[k |-> "genre", v |-> "text"], [k |-> "description", v |-> "text"]>>,
      <<[k |-> "self_wav", v |-> "wav"], [k |-> "genre", v |-> "text"]>>,
      <<[k |-> "genre", v |-> "text"], [k |-> "description", v |-> "other"]>> }

\* The examples of the provider's batches: those of the dropout policies, and one
\* whose wav holds two examples (a leading dimension of 2).
ProviderExamples ==
    Examples \cup
    { Attrs(<<[k |-> "genre", v |-> Text("folk")]>>,
            <<[k |-> "self_wav",
               v |-> [b |-> 2, samples |-> 2, length |-> <<2, 2>>, sample_rate |-> 24,
                      path |-> <<"b.wav", "c.wav">>, seek_time |-> <<"0.0", "1.0">>]]>>) }

ProviderBatches == SeqsUpTo(ProviderExamples, MaxExamples)

\* The keys of a dict's items whose value is kind, in dict order.
RECURSIVE KeysOfKind(_, _)
KeysOfKind(d, kind) ==
    IF d = <<>> THEN <<>>
    ELSE (IF Head(d).v = kind THEN <<Head(d).k>> ELSE <<>>) \o KeysOfKind(Tail(d), kind)

\* ConditionProvider.text_conditions
TextConditions(reg) == KeysOfKind(reg, "text")

\* ConditionProvider.wav_conditions
WavConditions(reg) == KeysOfKind(reg, "wav")

NoError == [kind |-> "none", names |-> {}]
Raised(kind, names) == [kind |-> kind, names |-> names]

\* The first of the (sample, condition) pairs bad, in the order of the nested
\* loops; <<0, 0>> when there is none.
FirstPair(bad) ==
    IF bad = {} THEN <<0, 0>>
    ELSE CHOOSE pr \in bad :
            \A q \in bad : pr[1] < q[1] \/ (pr[1] = q[1] /\ pr[2] <= q[2])

\* The (sample, condition) pairs of the nested loops.
Pairs(samples, conds) == (DOMAIN samples) \X (DOMAIN conds)

\* _collate_text(samples): out[condition].append(text[condition]) for every sample
\* and every text condition; text[condition] raises KeyError.
CollateText(reg, samples) ==
    LET conds == TextConditions(reg)
        Lacks(i, j) == conds[j] \notin KeySet(samples[i].text)
        first == FirstPair({pr \in Pairs(samples, conds) : Lacks(pr[1], pr[2])})
    IN  IF first # <<0, 0>>
        THEN [err |-> Raised("KeyError", {conds[first[2]]}), out |-> <<>>]
        ELSE [err |-> NoError,
              out |-> IF samples = <<>> THEN <<>>
                      ELSE [j \in DOMAIN conds |->
                               [k |-> conds[j],
                                v |-> [i \in DOMAIN samples |-> Get(samples[i].text, conds[j])]]]]

RECURSIVE Flatten(_)
Flatten(ss) == IF ss = <<>> THEN <<>> ELSE Head(ss) \o Flatten(Tail(ss))

RECURSIVE MaxOf(_)
MaxOf(ns) ==
    IF ns = <<>> THEN 0
    ELSE LET rest == MaxOf(Tail(ns)) IN IF Head(ns) > rest THEN Head(ns) ELSE rest

\* stack_and_pad_audio(wavs): the wavs stacked along the batch, padded to the longest.
StackAndPad(wavs) == [b |-> Len(wavs), samples |-> MaxOf([i \in DOMAIN wavs |-> wavs[i].samples])]

\* _collate_wavs(samples): the first loop reads sample.wav[attribute] (KeyError) and
\* asserts wav.size(0) == 1; the second reads sample_rates[attribute][0]
\* (IndexError), asserts the sample rates equal and stacks.
CollateWavs(reg, samples) ==
    LET conds == WavConditions(reg)
        Lacks(i, j) == conds[j] \notin KeySet(samples[i].wav)
        Bad(i, j) == Lacks(i, j) \/ Get(samples[i].wav, conds[j]).b # 1
        first == FirstPair({pr \in Pairs(samples, conds) : Bad(pr[1], pr[2])})
        Of(i, j) == Get(samples[i].wav, conds[j])
        Mixed(i, j) == Of(i, j).sample_rate # Of(1, j).sample_rate
        mixed == FirstPair({pr \in Pairs(samples, conds) : Mixed(pr[1], pr[2])})
    IN  IF first # <<0, 0>>
        THEN [err |-> IF Lacks(first[1], first[2])
                      THEN Raised("KeyError", {conds[first[2]]})
                      ELSE Raised("AssertionError", {}),
              out |-> <<>>]
        ELSE IF conds # <<>> /\ samples = <<>>
        THEN [err |-> Raised("IndexError", {}), out |-> <<>>]
        ELSE IF mixed # <<0, 0>>
        THEN [err |-> Raised("AssertionError", {}), out |-> <<>>]
        ELSE [err |-> NoError,
              out |-> [j \in DOMAIN conds |->
                         [k |-> conds[j],
                          v |-> LET stacked == StackAndPad([i \in DOMAIN samples |-> Of(i, j)])
                                IN  [b |-> stacked.b, samples |-> stacked.samples,
                                     length |-> Flatten([i \in DOMAIN samples |-> Of(i, j).length]),
                                     sample_rate |-> Of(1, j).sample_rate,
                                     path |-> Flatten([i \in DOMAIN samples |-> Of(i, j).path]),
                                     seek_time |-> Flatten([i \in DOMAIN samples |-> Of(i, j).seek_time])]]]]

\* assert set(text.keys() | wavs.keys()).issubset(set(self.conditioners.keys()))
ExpectedAttributes(reg, text, wavs) == (KeySet(text) \cup KeySet(wavs)) \subseteq KeySet(reg)

MissingInputsMutant(reg, text, wavs) == {}
\* missing_inputs = set(self.conditioners.keys()) - (set(text.keys()) | set(wavs.keys()))
MissingInputs(reg, text, wavs) == KeySet(reg) \ (KeySet(text) \cup KeySet(wavs))

ChainMutant(text, wavs) == text
\* chain(text.items(), wavs.items())
Chain(text, wavs) == text \o wavs

\* output[attribute] = value
Put(d, key, val) ==
    IF key \in KeySet(d) THEN Set(d, key, val) ELSE Append(d, [k |-> key, v |-> val])

Called(counts, name, what) ==
    [counts EXCEPT ![name] = [@ EXCEPT ![what] = @ + 1]]

\* for attribute, batch in ...: output[attribute] = self.conditioners[attribute].prepare(batch)
\* The conditioner's prepare returns its prepared representation of the batch.
RECURSIVE PrepareLoop(_, _)
PrepareLoop(st, items) ==
    IF items = <<>> THEN st
    ELSE PrepareLoop([output |-> Put(st.output, Head(items).k,
                                     [prepared |-> Head(items).v]),
                      counts |-> Called(st.counts, Head(items).k, "prepare")],
                     Tail(items))

NoCounts(reg) == [name \in KeySet(reg) |-> [prepare |-> 0, forward |-> 0]]

\* ConditionProvider.prepare(inputs)
ProviderPrepare(reg, inputs) ==
    LET text == CollateText(reg, inputs)
        wavs == CollateWavs(reg, inputs)
        failed(err) == [err |-> err, output |-> <<>>, counts |-> NoCounts(reg)]
    IN  IF text.err # NoError THEN failed(text.err)
        ELSE IF wavs.err # NoError THEN failed(wavs.err)
        ELSE IF ~ExpectedAttributes(reg, text.out, wavs.out)
        THEN failed(Raised("AssertionError", (KeySet(text.out) \cup KeySet(wavs.out)) \ KeySet(reg)))
        ELSE IF MissingInputs(reg, text.out, wavs.out) # {}
        THEN failed(Raised("RuntimeError", MissingInputs(reg, text.out, wavs.out)))
        ELSE LET st == PrepareLoop([output |-> <<>>, counts |-> NoCounts(reg)],
                                   Chain(text.out, wavs.out))
             IN  [err |-> NoError, output |-> st.output, counts |-> st.counts]

\* for attribute, inputs in prepared.items():
\*     condition, mask = self.conditioners[attribute](inputs)
\*     output[attribute] = ConditionType(condition.to(self._fsdp_dtype), mask)
RECURSIVE ForwardLoop(_, _)
ForwardLoop(st, items) ==
    IF items = <<>> THEN st
    ELSE ForwardLoop([output |-> Put(st.output, Head(items).k,
                                     [condition |-> Head(items).v.prepared]),
                      counts |-> Called(st.counts, Head(items).k, "forward")],
                     Tail(items))

\* ConditionProvider.forward(prepared)
ProviderForward(prepared, counts) ==
    ForwardLoop([output |-> <<>>, counts |-> counts], prepared)

NoProviderCall ==
    [stage |-> "none", batch |-> <<>>, err |-> NoError, prepared |-> <<>>, output |-> <<>>]

ProviderInit ==
    /\ conditioners \in Registries
    /\ pcall = NoProviderCall
    /\ invoked = NoCounts(conditioners)

\* provider.prepare(batch)
Prepare ==
    /\ pcall.stage = "none"
    /\ \E batch \in ProviderBatches :
          LET r == ProviderPrepare(conditioners, batch) IN
          /\ pcall' = [stage |-> "prepared", batch |-> batch, err |-> r.err,
                       prepared |-> r.output, output |-> <<>>]
          /\ invoked' = r.counts
    /\ UNCHANGED conditioners

\* provider(prepared), on what prepare returned
Produce ==
    /\ pcall.stage = "prepared"
    /\ pcall.err = NoError
    /\ LET r == ProviderForward(pcall.prepared, invoked) IN
          /\ pcall' = [pcall EXCEPT !.stage = "produced", !.output = r.output]
          /\ invoked' = r.counts
    /\ UNCHANGED conditioners

\* The caller has taken the result of the round; the next round can be made.
TakeProvided ==
    /\ pcall.stage # "none"
    /\ pcall' = NoProviderCall
    /\ invoked' = NoCounts(conditioners)
    /\ UNCHANGED conditioners

\* ------------------------------------------------------ BaseConditioner
\* BaseConditioner.__init__(dim, output_dim, device, force_linear, pad_empty,
\* output_bias, learn_padding): output_proj is a Linear when force_linear or
\* dim != output_dim, and the Identity otherwise.
Conditioner(dim, output_dim, force_linear, pad_empty, learn_padding) ==
    [dim |-> dim, output_dim |-> output_dim,
     linear |-> force_linear \/ dim # output_dim,
     pad_empty |-> pad_empty, learnt_padding |-> learn_padding]

\* The conditioners constructed.
Conditioners ==
    {Conditioner(d, Dim, f, p, l) : d \in {Dim, Dim \div 2}, f \in BOOLEAN,
                                    p \in BOOLEAN, l \in BOOLEAN}

\* What _get_condition returns: cond of shape [B, T, dim], its content along the
\* batch and time, and a boolean mask of shape [B, T].
RawConditions(dim) ==
    UNION {{[shape |-> <<B, T, dim>>,
             cells |-> [b \in 1..B |-> [t \in 1..T |-> "embedded"]],
             mask |-> m] : m \in [1..B -> [1..T -> BOOLEAN]]} :
           B \in 1..BatchSize, T \in 0..MaxRawLen}

\* if T == 0 and self.pad_empty:
\*     cond = torch.zeros(B, T, C, ...); mask = torch.zeros_like(cond[..., 0], dtype=torch.bool)
PadEmpty(c, raw) ==
    LET B == raw.shape[1]
        T == raw.shape[2]
        C == raw.shape[3]
    IN  IF T = 0 /\ c.pad_empty
        THEN [shape |-> <<B, T, C>>,
              cells |-> [b \in 1..B |-> [t \in 1..T |-> "zeros"]],
              mask |-> [b \in 1..B |-> [t \in 1..T |-> FALSE]]]
        ELSE raw

\* cond = self.output_proj(cond.to(dtype)): the last dimension becomes output_dim.
OutputProj(c, cond) ==
    [cond EXCEPT !.shape[3] = c.output_dim,
                 !.cells = [b \in DOMAIN cond.cells |->
                               [t \in DOMAIN cond.cells[b] |->
                                   IF c.linear THEN "projected" ELSE cond.cells[b][t]]]]

\* cond * maskf + self.learnt_padding * (1 - maskf), or cond * maskf: the masked
\* positions hold the padding value.
ApplyMask(c, cond) ==
    [cond EXCEPT !.cells = [b \in DOMAIN cond.cells |->
                               [t \in DOMAIN cond.cells[b] |->
                                   IF cond.mask[b][t] THEN cond.cells[b][t]
                                   ELSE IF c.learnt_padding THEN "learnt_padding"
                                   ELSE "zeros"]]]

\* mask.shape, of a mask given along the batch and time (B is at least 1).
MaskShape(cond) == <<Len(cond.mask), Len(cond.mask[1])>>

\* BaseConditioner.forward(inputs), on what _get_condition returns for inputs.
ConditionerForward(c, raw) == ApplyMask(c, OutputProj(c, PadEmpty(c, raw)))

NoConditionerCall == [status |-> "none", raw |-> <<>>, out |-> <<>>]

ConditionerInit ==
    /\ conditioner \in Conditioners
    /\ ccall = NoConditionerCall

\* conditioner(inputs)
Condition ==
    /\ ccall.status = "none"
    /\ \E raw \in RawConditions(conditioner.dim) :
          ccall' = [status |-> "ok", raw |-> raw, out |-> ConditionerForward(conditioner, raw)]
    /\ UNCHANGED conditioner

\* The caller has taken the condition; the next call can be made.
TakeCondition ==
    /\ ccall.status # "none"
    /\ ccall' = NoConditionerCall
    /\ UNCHANGED conditioner

\* ------------------------------------------------------- specifications
\* The components not taking part in a specification stay as constructed.
FuserIdle ==
    /\ fuse2cond = SpecConfig
    /\ cond2fuse = BuildCond2Fuse(EmptyMap, SpecConfig)
    /\ pos_emb = FALSE
    /\ is_streaming = FALSE
    /\ streaming_state = [present |-> FALSE, offsets |-> <<>>]
    /\ call = NoCall
    /\ session = NoSession

DropoutIdle ==
    /\ policy = CFGPolicy(Never)
    /\ training = TRUE
    /\ rng = [w \in Workers |-> 0]
    /\ order = [w \in Workers |-> <<"text", "wav">>]
    /\ dcall = NoDropoutCall
    /\ history = NoHistory(0)

ProviderIdle ==
    /\ conditioners = <<>>
    /\ pcall = NoProviderCall
    /\ invoked = NoCounts(<<>>)

ConditionerIdle ==
    /\ conditioner = Conditioner(Dim, Dim, TRUE, TRUE, TRUE)
    /\ ccall = NoConditionerCall

FuserSpecInit == FuserInit /\ DropoutIdle /\ ProviderIdle /\ ConditionerIdle

FuserSpecNext ==
    \/ BeginStreaming /\ UNCHANGED <<dropoutVars, providerVars, conditionerVars>>
    \/ EndStreaming /\ UNCHANGED <<dropoutVars, providerVars, conditionerVars>>
    \/ Fuse /\ UNCHANGED <<dropoutVars, providerVars, conditionerVars>>
    \/ TakeResult /\ UNCHANGED <<dropoutVars, providerVars, conditionerVars>>

FuserSpec == FuserSpecInit /\ [][FuserSpecNext]_vars

DropoutSpecInit == DropoutInit /\ FuserIdle /\ ProviderIdle /\ ConditionerIdle

DropoutSpecNext ==
    \/ DropoutCall /\ UNCHANGED <<fuserVars, providerVars, conditionerVars>>
    \/ Train /\ UNCHANGED <<fuserVars, providerVars, conditionerVars>>
    \/ Eval /\ UNCHANGED <<fuserVars, providerVars, conditionerVars>>
    \/ TakeDropped /\ UNCHANGED <<fuserVars, providerVars, conditionerVars>>

DropoutSpec == DropoutSpecInit /\ [][DropoutSpecNext]_vars

ProviderSpecInit == ProviderInit /\ FuserIdle /\ DropoutIdle /\ ConditionerIdle

ProviderSpecNext ==
    \/ Prepare /\ UNCHANGED <<fuserVars, dropoutVars, conditionerVars>>
    \/ Produce /\ UNCHANGED <<fuserVars, dropoutVars, conditionerVars>>
    \/ TakeProvided /\ UNCHANGED <<fuserVars, dropoutVars, conditionerVars>>

ProviderSpec == ProviderSpecInit /\ [][ProviderSpecNext]_vars

ConditionerSpecInit == ConditionerInit /\ FuserIdle /\ DropoutIdle /\ ProviderIdle

ConditionerSpecNext ==
    \/ Condition /\ UNCHANGED <<fuserVars, dropoutVars, providerVars>>
    \/ TakeCondition /\ UNCHANGED <<fuserVars, dropoutVars, providerVars>>

ConditionerSpec == ConditionerSpecInit /\ [][ConditionerSpecNext]_vars

\* ------------------------------------------------- statements: the fuser
Origins(cells) == {cells[i][1] : i \in DOMAIN cells}

\* The last call returned, in streaming mode; session.calls is then its rank among
\* the calls of the session that returned.
StreamedOk == call.status = "ok" /\ call.streaming

\* C1: in one streaming session a prepend condition is concatenated before the
\* input on the first fuse call only: the first call returns the prepend
\* conditions followed by the input, and every later call returns a tensor of
\* exactly the time length T of its own input, holding nothing but that input,
\* also when it is given the prepend condition again.
C1_PrependOnFirstCallOnly ==
    StreamedOk =>
        /\ session.calls = 1 =>
              /\ Len(call.fused) = call.T + PrependLen(call.conds)
              /\ \A c \in PrependConds(call.conds) : c.name \in Origins(call.fused)
        /\ session.calls > 1 =>
              /\ Len(call.fused) = call.T
              /\ Origins(call.fused) = {"input"}

\* A later call of a session, given the very prepend condition the first call of the
\* session prepended.
C1_Witness ==
    /\ StreamedOk
    /\ session.calls = 2
    /\ PrependConds(call.conds) # {}
    /\ PrependConds(call.conds) = session.prepended
    /\ Len(call.fused) = call.T

\* C2: in a streaming session the stored offset of every example is the sum of
\* the input time lengths T of the calls of the session that returned; there is
\* a stored offset exactly when some call has returned.
C2_OffsetIsSumOfT ==
    is_streaming =>
        /\ streaming_state.present <=> session.calls > 0
        /\ streaming_state.present =>
              /\ Len(streaming_state.offsets) = BatchSize
              /\ \A i \in DOMAIN streaming_state.offsets :
                    streaming_state.offsets[i] = session.sumT

\* Two calls have returned, the first of which prepended: its fused length was not T.
C2_Witness ==
    /\ StreamedOk
    /\ session.calls = 2
    /\ session.prepended # {}
    /\ \A i \in 1..BatchSize : streaming_state.offsets[i] = session.sumT
    /\ session.sumT > call.T

\* C3: no offset is carried from one streaming session to the next: a session
\* starts with no stored offset, and its first call is a first step from offset
\* zero (it prepends, and leaves the offset at its own T), whatever the earlier
\* session did.
C3_NoOffsetAcrossSessions ==
    /\ (is_streaming /\ session.calls = 0) => ~streaming_state.present
    /\ (StreamedOk /\ session.calls = 1) =>
          /\ call.first_step
          /\ ~call.before.present
          /\ Len(call.fused) = call.T + PrependLen(call.conds)
          /\ \A i \in 1..BatchSize : streaming_state.offsets[i] = call.T

\* The first call of a session that follows a session of MaxCalls calls, prepending.
C3_Witness ==
    /\ StreamedOk
    /\ session.calls = 1
    /\ session.earlier = MaxCalls
    /\ PrependConds(call.conds) # {}
    /\ call.first_step

\* The example's call: genre=sum, description=cross, lyrics=prepend, an input of
\* shape [2,5,8] and, in this order, the given conditions.
ExampleCall(conds) ==
    /\ fuse2cond = SpecConfig
    /\ call.status = "ok"
    /\ Shape(InputCells(call.T)) = <<2, 5, 8>>
    /\ call.conds = conds

Description3 == [name |-> "description", len |-> 3]
Lyrics3 == [name |-> "lyrics", len |-> 3]

\* C4 as stated: the first call with the description condition [2,3,8] alone returns
\* a fused input of shape [2,8,8] and a cross-attention stream of shape [2,3,8]; a
\* second streaming call returns a fused input of shape [2,5,8] and leaves the
\* offset at 10.
C4_AsStated ==
    /\ (ExampleCall(<<Description3>>) /\ call.first_step) =>
          /\ Shape(call.fused) = <<2, 8, 8>>
          /\ Shape(call.cross.cells) = <<2, 3, 8>>
    /\ (ExampleCall(<<Description3>>) /\ call.streaming /\ session.calls = 2
            /\ session.sumT = 10) =>
          /\ Shape(call.fused) = <<2, 5, 8>>
          /\ \A i \in 1..BatchSize : streaming_state.offsets[i] = 10

\* C4, amended: with the description condition [2,3,8] alone the first call
\* returns a fused input of shape [2,5,8] (description is fused by cross, nothing
\* is prepended) and a cross-attention stream of shape [2,3,8]; the fused input
\* has shape [2,8,8] when a lyrics condition [2,3,8] is supplied too; a second
\* streaming call with either set of conditions returns a fused input of shape
\* [2,5,8] and leaves the offset at 10.
C4_Example ==
    \A conds \in {<<Description3>>, <<Description3, Lyrics3>>, <<Lyrics3, Description3>>} :
        /\ (ExampleCall(conds) /\ call.first_step) =>
              /\ Shape(call.fused) = <<2, IF Len(conds) = 1 THEN 5 ELSE 8, 8>>
              /\ ~call.cross.isNone
              /\ Shape(call.cross.cells) = <<2, 3, 8>>
        /\ (ExampleCall(conds) /\ call.streaming /\ session.calls = 2
                /\ session.sumT = 10) =>
              /\ Shape(call.fused) = <<2, 5, 8>>
              /\ ~call.cross.isNone
              /\ Shape(call.cross.cells) = <<2, 3, 8>>
              /\ \A i \in 1..BatchSize : streaming_state.offsets[i] = 10

\* The second streaming call of the example, after a first call of the same length.
C4_Witness ==
    /\ ExampleCall(<<Description3>>)
    /\ call.streaming
    /\ session.calls = 2
    /\ session.sumT = 10
    /\ Shape(call.fused) = <<2, 5, 8>>
    /\ \A i \in 1..BatchSize : streaming_state.offsets[i] = 10

\* ------------------------------------------ statements: the dropout policies
\* The batch worker w's call returned.
Returned(w) ==
    [i \in DOMAIN dcall.res[w].ret |-> dcall.res[w].mem[dcall.res[w].ret[i]]]

\* Every attribute of every example of the returned batch is the nullified one of
\* the batch given.
EveryNullified(w) ==
    /\ Len(Returned(w)) = Len(dcall.batch)
    /\ \A i \in DOMAIN dcall.batch :
          /\ Keys(Returned(w)[i].text) = Keys(dcall.batch[i].text)
          /\ Keys(Returned(w)[i].wav) = Keys(dcall.batch[i].wav)
          /\ \A j \in DOMAIN dcall.batch[i].text : Returned(w)[i].text[j].v = TextNone
          /\ \A j \in DOMAIN dcall.batch[i].wav :
                Returned(w)[i].wav[j].v = NullifyWav(dcall.batch[i].wav[j].v)

\* Every attribute of every example of the returned batch is as supplied.
EveryKept(w) == Returned(w) = dcall.batch

CFGCalled == dcall.status = "ok" /\ policy.kind = "cfg"

\* C5: a call of ClassifierFreeGuidanceDropout returns a batch with every
\* attribute of every example nullified, or with every attribute of every example
\* as supplied: never with a part of them nullified.
C5_AllOrNothing ==
    CFGCalled => \A w \in Workers : EveryNullified(w) \/ EveryKept(w)

\* A call that dropped a batch of two examples holding text and wav attributes.
C5_Witness ==
    /\ CFGCalled
    /\ Len(dcall.batch) = 2
    /\ \A i \in 1..2 : dcall.batch[i].text # <<>> /\ dcall.batch[i].wav # <<>>
    /\ EveryNullified(1)
    /\ ~EveryKept(1)

\* C6: two workers with the same dropout module, seed and batches make the same
\* decisions: after every call they have nullified the same (example, attribute)
\* pairs and return equal batches.
C6_WorkersAgree ==
    dcall.status = "ok" =>
        /\ dcall.res[1].dropped = dcall.res[2].dropped
        /\ Returned(1) = Returned(2)

\* C7: a dropout call leaves the objects of the caller's batch as they were: the
\* same text and wav mappings, whatever was dropped.
C7_InputNotMutated ==
    dcall.status = "ok" =>
        \A w \in Workers : \A i \in DOMAIN dcall.batch :
            dcall.res[w].mem[i] = dcall.batch[i]

\* A call of AttributeDropout that nullified some attribute, the caller's batch
\* being as before.
C7_Witness ==
    /\ dcall.status = "ok"
    /\ policy.kind = "attribute"
    /\ dcall.res[1].dropped # {}
    /\ Returned(1) # dcall.batch
    /\ \A i \in DOMAIN dcall.batch : dcall.res[1].mem[i] = dcall.batch[i]

\* ---------------------------------------------- statements: the provider
\* The attribute names the examples of the batch carry.
BatchAttributes ==
    UNION {KeySet(pcall.batch[i].text) \cup KeySet(pcall.batch[i].wav) : i \in DOMAIN pcall.batch}

PrepareCalled == pcall.stage # "none"

\* C8: prepare fails on every batch in which some example carries an attribute
\* name that is not in the registry.
C8_UnknownAttributeFails ==
    (PrepareCalled /\ ~(BatchAttributes \subseteq KeySet(conditioners))) =>
        pcall.err # NoError

\* Example ex supplies the attribute of conditioner c: under the mapping of c's
\* family, or under either mapping when c is of neither family.
Supplies(ex, c) ==
    IF c.v = "text" THEN c.k \in KeySet(ex.text)
    ELSE IF c.v = "wav" THEN c.k \in KeySet(ex.wav)
    ELSE c.k \in KeySet(ex.text) \cup KeySet(ex.wav)

\* Conditioner c received no input: it is of neither family, the batch is empty,
\* or some example lacks its key.
Unfed(c) ==
    \/ c.v \notin {"text", "wav"}
    \/ pcall.batch = <<>>
    \/ \E i \in DOMAIN pcall.batch : ~Supplies(pcall.batch[i], c)

UnfedNames == {conditioners[j].k : j \in {l \in DOMAIN conditioners : Unfed(conditioners[l])}}

\* C9 as stated: whenever some registered conditioner received no input, prepare
\* fails with an error that names missing conditioners.
C9_AsStated ==
    (PrepareCalled /\ UnfedNames # {}) =>
        /\ pcall.err # NoError
        /\ pcall.err.names # {}
        /\ pcall.err.names \subseteq UnfedNames

\* C9, amended: whenever some registered conditioner received no input, prepare
\* raises: the RuntimeError names exactly the conditioners without input, a
\* KeyError names the attribute an example lacks, and an IndexError or an
\* AssertionError of the waveform collation names none; and prepare never returns
\* a mapping that lacks a registered conditioner.
C9_UnfedConditionerFails ==
    PrepareCalled =>
        /\ UnfedNames # {} => pcall.err # NoError
        /\ pcall.err.kind = "RuntimeError" =>
              pcall.err.names # {} /\ pcall.err.names = UnfedNames
        /\ pcall.err.kind = "KeyError" =>
              pcall.err.names # {} /\ pcall.err.names \subseteq UnfedNames
        /\ pcall.err = NoError => KeySet(pcall.prepared) = KeySet(conditioners)

\* A non-empty batch given to a registry with a conditioner of neither family: the
\* RuntimeError that names it.
C9_Witness ==
    /\ PrepareCalled
    /\ pcall.batch # <<>>
    /\ pcall.err.kind = "RuntimeError"
    /\ pcall.err.names = {"description"}

AllSupplied ==
    \A i \in DOMAIN pcall.batch : \A j \in DOMAIN conditioners :
        Supplies(pcall.batch[i], conditioners[j])

\* Each conditioner's prepare was called np times and its forward nf times.
InvokedEach(np, nf) ==
    \A name \in KeySet(conditioners) :
        invoked[name].prepare = np /\ invoked[name].forward = nf

\* prepare returned and, when forward has run, it returned one entry per
\* registered conditioner, each conditioner's prepare and forward called once.
RoundTripOk ==
    /\ pcall.err = NoError
    /\ KeySet(pcall.prepared) = KeySet(conditioners)
    /\ Len(pcall.prepared) = Len(conditioners)
    /\ pcall.stage = "prepared" => InvokedEach(1, 0)
    /\ pcall.stage = "produced" =>
          /\ KeySet(pcall.output) = KeySet(conditioners)
          /\ Len(pcall.output) = Len(conditioners)
          /\ InvokedEach(1, 1)

\* C10 as stated: for every registry and every batch whose examples all supply
\* every registered attribute, produce(prepare(batch)) succeeds with exactly one
\* entry per registered conditioner.
C10_AsStated == (PrepareCalled /\ AllSupplied) => RoundTripOk

\* The wavs a waveform conditioner is given hold one example each and have one
\* sample rate.
WavsCollatable ==
    \A j \in DOMAIN conditioners : conditioners[j].v = "wav" =>
        \A i \in DOMAIN pcall.batch :
            /\ Get(pcall.batch[i].wav, conditioners[j].k).b = 1
            /\ Get(pcall.batch[i].wav, conditioners[j].k).sample_rate
                  = Get(pcall.batch[1].wav, conditioners[j].k).sample_rate

\* C10, amended: for every registry of text and waveform conditioners and every
\* non-empty batch whose examples all supply every registered attribute, the wavs
\* of an attribute holding one example each and having one sample rate,
\* produce(prepare(batch)) succeeds with exactly one entry per registered
\* conditioner, each conditioner's prepare and forward called exactly once.
C10_RoundTrip ==
    ( /\ PrepareCalled
      /\ AllSupplied
      /\ pcall.batch # <<>>
      /\ \A j \in DOMAIN conditioners : conditioners[j].v \in {"text", "wav"}
      /\ WavsCollatable ) => RoundTripOk

\* A round trip of two examples through a registry of a waveform and a text
\* conditioner.
C10_Witness ==
    /\ pcall.stage = "produced"
    /\ Len(pcall.batch) = 2
    /\ Len(conditioners) = 2
    /\ \E j \in DOMAIN conditioners : conditioners[j].v = "wav"
    /\ RoundTripOk

\* ------------------------------------- statements: the fuser, continued
\* The last call was given some attribute name the configuration does not hold.
UnknownSupplied ==
    /\ call.status # "none"
    /\ \E i \in DOMAIN call.conds : call.conds[i].name \notin DOMAIN cond2fuse

\* C11: a fuse call whose conditions mapping holds an attribute name that is not
\* in the fuser's configuration fails on the assertion before any fusion: nothing
\* has been summed onto the caller's input, no fused input and no cross-attention
\* stream is returned, and the stored streaming offset is the one from before the
\* call.
C11_UnknownAttributeFailsFirst ==
    UnknownSupplied =>
        /\ call.status = "AssertionError"
        /\ call.caller = InputCells(call.T)
        /\ call.fused = <<>>
        /\ call.cross = NoCross
        /\ streaming_state = call.before

\* A later call of a streaming session given a sum condition that fits the input,
\* then an unknown attribute: the offset stored by the earlier call is kept.
C11_Witness ==
    /\ UnknownSupplied
    /\ call.status = "AssertionError"
    /\ call.streaming
    /\ call.before.present
    /\ Len(call.conds) = 2
    /\ call.conds[1].name \in DOMAIN cond2fuse
    /\ cond2fuse[call.conds[1].name] = "sum"
    /\ call.conds[1].len = 1
    /\ call.conds[2].name = UnknownAttr
    /\ streaming_state = call.before

\* Attribute a is listed under method m in the configuration.
Listed(a, m) ==
    \E i \in DOMAIN fuse2cond :
        /\ fuse2cond[i][1] = m
        /\ \E j \in DOMAIN fuse2cond[i][2] : fuse2cond[i][2][j] = a

\* C12: every configured attribute name maps to exactly one fusion method: an
\* attribute is listed under a method in fuse2cond exactly when cond2fuse maps it
\* to that method, so no attribute is listed under two methods; and cond2fuse stays
\* the mapping derived at construction.
C12_OneMethodPerAttribute ==
    /\ \A a \in DOMAIN cond2fuse : \A m \in FUSING_METHODS :
          Listed(a, m) <=> cond2fuse[a] = m
    /\ cond2fuse = BuildCond2Fuse(EmptyMap, fuse2cond)

\* ------------------------------ statements: the dropout policies, continued
\* The wav attributes a call of worker w nullified: what nullify_wav was given
\* (from) and what it returned (to).
NullifiedWavs(w) ==
    {[from |-> Get(dcall.batch[item.id - Len(dcall.batch)].wav, item.key),
      to |-> Get(dcall.res[w].mem[item.id].wav, item.key)] :
        item \in {it \in dcall.res[w].dropped : it.type = "wav"}}

\* C13: for every WavCondition, of 0, 1 or more samples, nullify_wav returns a
\* condition whose waveform has a last dimension of size exactly 1 (is_nullified
\* holds), whose length entries are all zero, whose sample rate is unchanged and
\* whose path and seek_time entries are all None, as many as before.
C13_NullifyYieldsOneSample ==
    dcall.status = "ok" =>
        \A w \in Workers : \A n \in NullifiedWavs(w) :
            /\ n.to.samples = 1
            /\ IsNullified(n.to)
            /\ n.to.length = [i \in DOMAIN n.from.length |-> 0]
            /\ n.to.sample_rate = n.from.sample_rate
            /\ n.to.path = [i \in DOMAIN n.from.path |-> "None"]
            /\ n.to.seek_time = [i \in DOMAIN n.from.seek_time |-> "None"]

\* The last call was one of AttributeDropout, active: in training mode, or with
\* active_on_eval set.
ActiveAttributeCall ==
    /\ dcall.status = "ok"
    /\ policy.kind = "attribute"
    /\ dcall.training \/ policy.active_on_eval

\* The attribute is configured with the drop probability 1.0.
CertainDrop(key) == key \in KeySet(policy.dropouts) /\ Get(policy.dropouts, key) = Always

\* C14: when AttributeDropout is active, an attribute configured with the drop
\* probability 1.0 is nullified by every call in every example that carries it
\* (text set to None, wav replaced by what nullify_wav returns), whatever the seed
\* and the generator state left by earlier calls.
C14_CertainDropAlwaysNullifies ==
    ActiveAttributeCall =>
        \A w \in Workers : \A i \in DOMAIN dcall.batch :
            /\ \A j \in DOMAIN dcall.batch[i].text :
                  CertainDrop(dcall.batch[i].text[j].k) =>
                      /\ Returned(w)[i].text[j].k = dcall.batch[i].text[j].k
                      /\ Returned(w)[i].text[j].v = TextNone
            /\ \A j \in DOMAIN dcall.batch[i].wav :
                  CertainDrop(dcall.batch[i].wav[j].k) =>
                      /\ Returned(w)[i].wav[j].k = dcall.batch[i].wav[j].k
                      /\ Returned(w)[i].wav[j].v = NullifyWav(dcall.batch[i].wav[j].v)

\* A later call, the generator moved on by the earlier ones, in evaluation mode
\* with active_on_eval set: both examples carry the genre configured with 1.0, and
\* both are returned with genre None.
C14_Witness ==
    /\ ActiveAttributeCall
    /\ ~dcall.training
    /\ dcall.before[1] # history.seed
    /\ CertainDrop("genre")
    /\ Len(dcall.batch) = 2
    /\ \A i \in 1..2 :
          /\ "genre" \in KeySet(dcall.batch[i].text)
          /\ Get(dcall.batch[i].text, "genre") # TextNone
          /\ Get(Returned(1)[i].text, "genre") = TextNone

\* What the active AttributeDropout does in training mode to the batch of the last
\* call, from the generator state worker w had before the call.
AsInTraining(w) == AttributeForward(policy, TRUE, dcall.batch, dcall.before[w], order[w])

\* C15: outside training mode ClassifierFreeGuidanceDropout, and AttributeDropout
\* with active_on_eval false, return the batch given with every attribute of every
\* example unchanged (nothing drawn, nothing nullified); AttributeDropout with
\* active_on_eval true does what it does in training mode.
C15_NoOpOutsideTraining ==
    (dcall.status = "ok" /\ ~dcall.training) =>
        \A w \in Workers :
            IF policy.kind = "attribute" /\ policy.active_on_eval
            THEN dcall.res[w] = AsInTraining(w)
            ELSE /\ Returned(w) = dcall.batch
                 /\ dcall.res[w].ret = Ids(dcall.batch)
                 /\ dcall.res[w].dropped = {}
                 /\ dcall.res[w].draws = 0
                 /\ dcall.res[w].rng = dcall.before[w]

\* A call in evaluation mode of a policy that would have nullified the whole batch
\* in training mode, returning the batch given.
C15_Witness ==
    /\ dcall.status = "ok"
    /\ ~dcall.training
    /\ \/ policy = CFGPolicy(Always)
       \/ policy.kind = "attribute" /\ ~policy.active_on_eval /\ CertainDrop("genre")
    /\ Len(dcall.batch) = 2
    /\ \A i \in 1..2 : "genre" \in KeySet(dcall.batch[i].text)
    /\ Returned(1) = dcall.batch
    /\ dcall.res[1].draws = 0

\* The generator's state after k values have been drawn from the seed.
RECURSIVE RngAfter(_, _)
RngAfter(seed, k) == IF k = 0 THEN seed ELSE NextRng(RngAfter(seed, k - 1))

\* C16 as stated: every call of ClassifierFreeGuidanceDropout draws exactly one
\* value from the generator, so after k calls the generator has been advanced
\* exactly k times.
C16_AsStated ==
    policy.kind = "cfg" =>
        \A w \in Workers :
            /\ dcall.status = "ok" => dcall.res[w].draws = 1
            /\ history.values[w] = history.calls
            /\ rng[w] = RngAfter(history.seed, history.calls)

\* C16, amended: a call of ClassifierFreeGuidanceDropout in training mode draws
\* exactly one value from the generator, whatever the batch size and the number of
\* attributes and whether it drops or not, and a call outside training mode draws
\* none; so after k calls in training mode, and any number outside it, the
\* generator has been advanced exactly k times.
C16_OneDrawPerTrainingCall ==
    policy.kind = "cfg" =>
        \A w \in Workers :
            /\ dcall.status = "ok" =>
                  IF dcall.training
                  THEN /\ dcall.res[w].draws = 1
                       /\ dcall.res[w].rng = NextRng(dcall.before[w])
                  ELSE /\ dcall.res[w].draws = 0
                       /\ dcall.res[w].rng = dcall.before[w]
            /\ history.values[w] = history.trained
            /\ rng[w] = RngAfter(history.seed, history.trained)

\* The second of two calls in training mode, which nullified the attributes of a
\* batch of two examples holding text and wav attributes: two values drawn in all.
C16_Witness ==
    /\ CFGCalled
    /\ dcall.training
    /\ history.calls = 2
    /\ history.trained = 2
    /\ Len(dcall.batch) = 2
    /\ \A i \in 1..2 : Len(dcall.batch[i].text) = 2 /\ dcall.batch[i].wav # <<>>
    /\ Cardinality(dcall.res[1].dropped) = 6
    /\ dcall.res[1].draws = 1
    /\ history.values[1] = 2

\* The (example, attribute) pairs of the batch of worker w's copies, in the order
\* the worker visits them, and those of them whose name has a configured
\* probability.
Visited(w) ==
    AttributeWork(dcall.res[w].mem,
                  [i \in DOMAIN dcall.batch |-> Len(dcall.batch) + i], order[w])

RECURSIVE Configured(_)
Configured(work) ==
    IF work = <<>> THEN <<>>
    ELSE (IF Head(work).key \in KeySet(policy.dropouts) THEN <<Head(work)>> ELSE <<>>)
         \o Configured(Tail(work))

\* The value of the attribute of a visited pair in the batch given, and in the
\* batch worker w returned.
Given(item) == Get(dcall.batch[item.id - Len(dcall.batch)][item.type], item.key)
Left(w, item) == Get(dcall.res[w].mem[item.id][item.type], item.key)

\* C19: an active AttributeDropout call draws exactly one value for each (example,
\* attribute) pair whose name has a configured probability, in the order it visits
\* them, and none for the other attributes; a pair is nullified exactly when its
\* own draw is below its probability, and every other attribute, of the same
\* example or of another, is returned as given.
C19_OneDrawPerConfiguredPair ==
    ActiveAttributeCall =>
        \A w \in Workers :
            LET pairs == Configured(Visited(w))
                Draw(k) == RngAfter(dcall.before[w], k)
            IN  /\ dcall.res[w].draws = Len(pairs)
                /\ dcall.res[w].rng = Draw(Len(pairs))
                /\ \A k \in DOMAIN pairs :
                      IF Draw(k) < Get(policy.dropouts, pairs[k].key)
                      THEN /\ pairs[k] \in dcall.res[w].dropped
                           /\ Left(w, pairs[k]) =
                                 IF pairs[k].type = "wav" THEN NullifyWav(Given(pairs[k]))
                                 ELSE TextNone
                      ELSE /\ pairs[k] \notin dcall.res[w].dropped
                           /\ Left(w, pairs[k]) = Given(pairs[k])
                /\ \A k \in DOMAIN Visited(w) :
                      Visited(w)[k].key \notin KeySet(policy.dropouts) =>
                          /\ Visited(w)[k] \notin dcall.res[w].dropped
                          /\ Left(w, Visited(w)[k]) = Given(Visited(w)[k])

\* A call on two examples that both carry genre and self_wav, each with a
\* probability of one half, and description, with none: four values drawn, and
\* genre nullified in the first example only, where self_wav is kept.
C19_Witness ==
    /\ ActiveAttributeCall
    /\ Len(dcall.batch) = 2
    /\ KeySet(policy.dropouts) = {"genre", "self_wav"}
    /\ \A i \in 1..2 : KeySet(dcall.batch[i].text) = {"genre", "description"}
    /\ dcall.res[1].draws = 4
    /\ {[id |-> it.id, key |-> it.key] : it \in dcall.res[1].dropped}
          = {[id |-> 3, key |-> "genre"]}

\* --------------------------------- statements: the fuser, single-shot calls
\* The last call returned, outside of a streaming session; session.single is then
\* its rank among the single-shot calls in a row that returned.
SingleShotOk == call.status = "ok" /\ ~call.streaming

\* C17: in single-shot mode every fuse call is a first step: it returns every
\* supplied prepend condition followed by the input, and it stores no offset, so
\* each of any number of single-shot calls in a row prepends.
C17_SingleShotAlwaysPrepends ==
    /\ ~is_streaming => ~streaming_state.present
    /\ SingleShotOk =>
          /\ call.first_step
          /\ ~call.before.present
          /\ Len(call.fused) = call.T + PrependLen(call.conds)
          /\ \A c \in PrependConds(call.conds) : c.name \in Origins(call.fused)
          /\ \A i \in 1..PrependLen(call.conds) : call.fused[i][1] # "input"

\* The second single-shot call in a row, after a streaming session of MaxCalls
\* calls has ended: it prepends.
C17_Witness ==
    /\ SingleShotOk
    /\ session.single = 2
    /\ session.earlier = MaxCalls
    /\ PrependConds(call.conds) # {}
    /\ Len(call.fused) > call.T
    /\ call.fused[1][1] # "input"

\* ------------------------------ statements: the fuser, the cross stream
\* The conditions of a mapping that the configuration fuses by cross, concatenated
\* along time in the order of the mapping.
RECURSIVE CrossCells(_)
CrossCells(conds) ==
    IF conds = <<>> THEN <<>>
    ELSE (IF cond2fuse[Head(conds).name] = "cross"
          THEN CondCells(Head(conds).name, Head(conds).len) ELSE <<>>)
         \o CrossCells(Tail(conds))

CrossSupplied(conds) == \E i \in DOMAIN conds : cond2fuse[conds[i].name] = "cross"

\* C20 as stated: on every fuse call the cross-attention stream returned is the
\* concatenation along time of the supplied cross conditions, in the order of the
\* mapping, and it is None exactly when no supplied condition is fused by cross.
C20_AsStated ==
    call.status = "ok" =>
        /\ call.cross.isNone <=> ~CrossSupplied(call.conds)
        /\ ~call.cross.isNone => call.cross.cells = CrossCells(call.conds)

\* C20, amended: on every fuse call, first step or not, the cross-attention stream
\* returned is None exactly when no supplied condition is fused by cross, and
\* otherwise it is the concatenation along time of the supplied cross conditions,
\* in the order of the mapping, to which the positional embedding is added at
\* every position when cross_attention_pos_emb is set; sum and prepend conditions
\* never contribute to it.
C20_CrossIsConcatenation ==
    call.status = "ok" =>
        /\ call.cross.isNone <=> ~CrossSupplied(call.conds)
        /\ call.cross.isNone => call.cross.cells = <<>>
        /\ ~call.cross.isNone =>
              /\ Len(call.cross.cells) = Len(CrossCells(call.conds))
              /\ \A i \in DOMAIN call.cross.cells :
                    call.cross.cells[i] =
                        IF pos_emb THEN CrossCells(call.conds)[i] \o <<"pos_emb">>
                        ELSE CrossCells(call.conds)[i]

\* A later call of a streaming session given two cross conditions, in the order
\* opposite to the configuration's: lyrics, then description.
C20_Witness ==
    /\ StreamedOk
    /\ ~call.first_step
    /\ Len(call.conds) = 2
    /\ call.conds[1] = [name |-> "lyrics", len |-> MaxCondLen]
    /\ call.conds[2] = [name |-> "description", len |-> 1]
    /\ cond2fuse["lyrics"] = "cross"
    /\ cond2fuse["description"] = "cross"
    /\ ~call.cross.isNone
    /\ Origins(call.cross.cells) = {"lyrics", "description"}
    /\ call.cross.cells[1][1] = "lyrics"
    /\ call.cross.cells[MaxCondLen + 1][1] = "description"

\* ------------------------------------------- statements: the conditioners
\* C18: with pad_empty enabled, forward on a raw condition of time length 0
\* returns a condition of time length 1 whose mask is all false; and in every case
\* the shape of the returned mask is the first two dimensions of the returned
\* condition.
C18_EmptyIsPadded ==
    ccall.status = "ok" =>
        /\ (conditioner.pad_empty /\ ccall.raw.shape[2] = 0) =>
              /\ ccall.out.shape[2] = 1
              /\ \A b \in DOMAIN ccall.out.mask :
                    /\ Len(ccall.out.mask[b]) = 1
                    /\ \A t \in DOMAIN ccall.out.mask[b] : ~ccall.out.mask[b][t]
        /\ MaskShape(ccall.out) = <<ccall.out.shape[1], ccall.out.shape[2]>>

\* ------------------------------ statements: the fuser, the caller's tensor
\* The sum conditions of a mapping that come before its first prepend condition
\* that takes effect (any prepend condition on a first step, none otherwise).
RECURSIVE SumsBeforePrepend(_, _)
SumsBeforePrepend(conds, first_step) ==
    IF conds = <<>> THEN <<>>
    ELSE IF cond2fuse[Head(conds).name] = "prepend" /\ first_step THEN <<>>
    ELSE (IF cond2fuse[Head(conds).name] = "sum" THEN <<Head(conds).name>> ELSE <<>>)
         \o SumsBeforePrepend(Tail(conds), first_step)

\* The cells with each of the conditions named added, in order.
RECURSIVE AddAll(_, _)
AddAll(cells, names) ==
    IF names = <<>> THEN cells ELSE AddAll(AddCond(cells, Head(names)), Tail(names))

\* C21: a fuse call that returns has modified the caller's input tensor exactly
\* when the mapping holds a sum condition before any prepend condition that takes
\* effect in the call: those sum conditions, and nothing else, have been added to
\* the caller's tensor; with no sum condition, or with every sum condition after an
\* effective prepend, the caller's tensor is as given and has the time length T,
\* whatever the returned tensor holds. A call that raises on a sum condition
\* leaves on the caller's tensor the sum conditions it had added before.
C21_SumWritesCallersInput ==
    LET names == SumsBeforePrepend(call.conds, call.first_step) IN
    /\ call.status = "ok" =>
          /\ call.caller = AddAll(InputCells(call.T), names)
          /\ call.caller # InputCells(call.T) <=> names # <<>>
          /\ Len(call.caller) = call.T
    /\ call.status = "RuntimeError" =>
          \E k \in 0..Len(names) :
              call.caller = AddAll(InputCells(call.T), SubSeq(names, 1, k))

\* A first step given a prepend condition and then a sum condition: the returned
\* tensor carries both, the caller's tensor neither.
C21_Witness ==
    /\ call.status = "ok"
    /\ call.first_step
    /\ Len(call.conds) = 2
    /\ cond2fuse[call.conds[1].name] = "prepend"
    /\ cond2fuse[call.conds[2].name] = "sum"
    /\ call.caller = InputCells(call.T)
    /\ Len(call.fused) = call.T + call.conds[1].len
    /\ \A i \in DOMAIN call.fused : call.fused[i][Len(call.fused[i])] = call.conds[2].name

\* ------------------- statements: the dropout policies, the batch's structure
\* Example after is example before with some of its attributes nullified: the same
\* text keys and the same wav keys, in the same order, each value as before or
\* nullified.
SameStructure(before, after) ==
    /\ Keys(after.text) = Keys(before.text)
    /\ Keys(after.wav) = Keys(before.wav)
    /\ \A j \in DOMAIN before.text : after.text[j].v \in {before.text[j].v, TextNone}
    /\ \A j \in DOMAIN before.wav :
          after.wav[j].v \in {before.wav[j].v, NullifyWav(before.wav[j].v)}

\* A batch that the provider of registry reg prepares is still prepared, for the
\* same conditioners, after the dropout.
StillFeeds(reg, before, after) ==
    LET prepared == ProviderPrepare(reg, before) IN
    prepared.err = NoError =>
        LET again == ProviderPrepare(reg, after)
        IN  /\ again.err = NoError
            /\ Keys(again.output) = Keys(prepared.output)
            /\ KeySet(again.output) = KeySet(reg)

\* C22: a dropout call never changes the structure of the batch: the returned
\* batch has as many examples, in the same order, each with exactly the text keys
\* and the wav keys it had (values may have become None or nullified); so a batch
\* that fed every registered conditioner before the dropout feeds every one after.
C22_DropoutKeepsStructure ==
    dcall.status = "ok" =>
        \A w \in Workers :
            LET returned == Returned(w)
            IN  /\ Len(returned) = Len(dcall.batch)
                /\ \A i \in DOMAIN dcall.batch : SameStructure(dcall.batch[i], returned[i])
                /\ \A reg \in Registries : StillFeeds(reg, dcall.batch, returned)

\* A call that nullified attributes of two different examples, both of which
\* supply the attributes of a registry of a waveform and a text conditioner.
C22_Witness ==
    /\ dcall.status = "ok"
    /\ Len(dcall.batch) = 2
    /\ dcall.batch[1] # dcall.batch[2]
    /\ \A i \in 1..2 : Returned(1)[i] # dcall.batch[i]
    /\ \E reg \in Registries :
          /\ Len(reg) = 2
          /\ \E j \in DOMAIN reg : reg[j].v = "wav"
          /\ ProviderPrepare(reg, dcall.batch).err = NoError
          /\ ProviderPrepare(reg, Returned(1)).err = NoError

\* ------------------------------- statements: the fuser, several prepends
\* The prepend conditions of a mapping, concatenated along time in the reverse of
\* the order of the mapping.
RECURSIVE PrependedCells(_)
PrependedCells(conds) ==
    IF conds = <<>> THEN <<>>
    ELSE PrependedCells(Tail(conds))
         \o (IF cond2fuse[Head(conds).name] = "prepend"
             THEN CondCells(Head(conds).name, Head(conds).len) ELSE <<>>)

\* What each position of a tensor was before anything was summed onto it.
OriginAt(cells) == [i \in DOMAIN cells |-> cells[i][1]]

\* C23: on a first step the prepend conditions are each concatenated in front of
\* everything fused so far: the fused input holds them in the reverse of their
\* order in the conditions mapping (the last one first), followed by the input,
\* and its time length is T plus the sum of the prepend lengths.
C23_PrependsInReverseOrder ==
    (call.status = "ok" /\ call.first_step) =>
        /\ OriginAt(call.fused) = OriginAt(PrependedCells(call.conds) \o InputCells(call.T))
        /\ Len(call.fused) = call.T + PrependLen(call.conds)

\* A first step given lyrics and then description, both fused by prepend and of
\* different lengths: description comes first, then lyrics, then the input.
C23_Witness ==
    /\ call.status = "ok"
    /\ call.first_step
    /\ call.conds = <<[name |-> "lyrics", len |-> MaxCondLen], [name |-> "description", len |-> 1]>>
    /\ cond2fuse["lyrics"] = "prepend"
    /\ cond2fuse["description"] = "prepend"
    /\ Len(call.fused) = call.T + MaxCondLen + 1
    /\ call.fused[1][1] = "description"
    /\ call.fused[2][1] = "lyrics"
    /\ call.fused[MaxCondLen + 1][1] = "lyrics"
    /\ call.fused[MaxCondLen + 2][1] = "input"

====
